---- MODULE Spec2Model ----
(***************************************************************************)
(* Credential store (src/db.py), TTL key-value cache and usage limiter of  *)
(* the BuscadorDGI dashboard, as state machines.                           *)
(*                                                                         *)
(* Strings that the code transforms (e-mails) are sequences of one-letter  *)
(* strings, so that strip() and lower() are computed.  Opaque strings      *)
(* (passwords, salts, digests, roles) are TLA+ strings.  PBKDF2 is the     *)
(* usual symbolic model of a key-derivation function: an injective         *)
(* function of (password, salt, iterations).                               *)
(***************************************************************************)
EXTENDS Integers, Sequences, FiniteSets, TLC

VARIABLES
    files,        \* the two candidate users.json files: location -> file
    USERS_PATH,   \* db.USERS_PATH, the module global ensure_users_file may move
    writable,     \* environment of a run: location -> whether files can be created/written
    now,          \* wall clock, in seconds
    ret,          \* outcome of the last credential-store call
    lastPw,       \* history: normalized e-mail -> the password last stored by upsert_user
    vcall,        \* a verify_password call: its inputs and, once run, its outcome
    kv_cache,     \* the sqlite database: [exists, rows], rows of table kv_cache
    cret,         \* outcome of the last cache call, if no time has passed since
    wrote,        \* history: key -> what the last cache_set or clear made of it
    usage,        \* the usage counters: <<user_id, date>> -> count
    today,        \* the calendar day
    lret,         \* the last usage-limiter call and its outcome
    hist,         \* history: user_id -> the consume calls made for it today
    yf,           \* a yf_call in progress: its inputs, position and outcome
    session,      \* streamlit's st.session_state of the browser session
    run,          \* what the last run of a page did
    proc          \* the upsert_user calls of two threads: thread -> call in progress

credVars == <<files, USERS_PATH, writable, ret, lastPw>>

verVars == <<vcall>>

cacheVars == <<kv_cache, cret, wrote>>

limVars == <<usage, today, lret, hist>>

yfVars == <<yf>>

sessVars == <<session, run, proc>>

-----------------------------------------------------------------------------
(* Bounds *)

MaxTime == 3        \* the clock stops here

MaxTTL == 2         \* the largest ttl_seconds a caller passes

MaxDay == 1         \* the calendar stops here

MaxLimit == 3       \* the largest daily_limit a caller passes

MaxCost == 2        \* the largest cost a caller passes

MaxAttempts == 4    \* the largest max_attempts a caller of yf_call passes

-----------------------------------------------------------------------------
(* Strings *)

\* str.lower() on one character of the alphabet used in the model
LowerChar(c) ==
    CASE c = "A" -> "a"
      [] c = "B" -> "b"
      [] c = "X" -> "x"
      [] OTHER -> c

str_lower(s) == [i \in 1..Len(s) |-> LowerChar(s[i])]

IsSpace(c) == c = " "

RECURSIVE lstrip(_)
lstrip(s) ==
    IF s # <<>> /\ IsSpace(Head(s)) THEN lstrip(Tail(s)) ELSE s

RECURSIVE rstrip(_)
rstrip(s) ==
    IF s # <<>> /\ IsSpace(s[Len(s)]) THEN rstrip(SubSeq(s, 1, Len(s) - 1)) ELSE s

str_strip(s) == rstrip(lstrip(s))

\* a mutant of _norm_email: strips but does not lower-case
norm_email_no_lower(email) == str_strip(email)

\* db._norm_email
_norm_email(email) == str_lower(str_strip(email))

\* E-mails as typed by callers
RawEmails ==
    { <<"a", "@", "x">>,
      <<" ", "A", "@", "X", " ">>,
      <<"b", "@", "x">> }

NormEmails == { str_lower(str_strip(e)) : e \in RawEmails }

Passwords == {"pw1", "pw2"}

Roles == {"admin", "user"}

\* the values os.urandom(16) can return
SaltBytes == {"s1", "s2"}

-----------------------------------------------------------------------------
(* JSON values.  A value is [dict |-> is it an object, f |-> its members]; *)
(* the members of a user record are strings.  None is a non-object.        *)

\* LET x == v IN F(x), with v evaluated once: the result of a call is bound
\* before it is passed on
Let(v, F(_)) == CHOOSE r \in { F(x) : x \in {v} } : TRUE

NoMembers == [k \in {} |-> ""]

None == [dict |-> FALSE, f |-> NoMembers]

Obj(members) == [dict |-> TRUE, f |-> members]

\* dict.get(key, default) on the members of an object
Get(members, key, default) ==
    IF key \in DOMAIN members THEN members[key] ELSE default

\* A Python dict / JSON object: a sequence of <<key, value>> items, in
\* insertion order.
EmptyDict == <<>>

DictKeys(d) == { d[i][1] : i \in 1..Len(d) }

DictGet(d, k) ==
    IF \E i \in 1..Len(d) : d[i][1] = k
    THEN d[CHOOSE i \in 1..Len(d) : d[i][1] = k /\ \A j \in (i+1)..Len(d) : d[j][1] # k][2]
    ELSE None

\* d[k] = v: an existing key keeps its place, a new one goes last
DictSet(d, k, v) ==
    IF \E i \in 1..Len(d) : d[i][1] = k
    THEN [i \in 1..Len(d) |-> IF d[i][1] = k THEN <<k, v>> ELSE d[i]]
    ELSE Append(d, <<k, v>>)

-----------------------------------------------------------------------------
(* Password hashing *)

\* hash_password's default cost
DefaultIterations == 200000

\* the integers whose decimal form the model knows
KnownInts == {0, 1, DefaultIterations}

\* int(s): [raised, val]
int(s) ==
    IF \E n \in KnownInts : ToString(n) = s
    THEN [raised |-> FALSE, val |-> CHOOSE n \in KnownInts : ToString(n) = s]
    ELSE [raised |-> TRUE, val |-> 0]

\* base64.b64encode(x).decode()
b64encode(x) == "b64<" \o x \o ">"

\* hashlib.pbkdf2_hmac("sha256", password, salt, iterations, dklen=32)
pbkdf2_hmac(password, salt, iterations) ==
    IF iterations < 1
    THEN [raised |-> TRUE, val |-> ""]
    ELSE [raised |-> FALSE,
          val |-> "dk(" \o password \o "," \o salt \o "," \o ToString(iterations) \o ")"]

\* the byte strings whose encoding the model knows: salts and digests
KnownBytes ==
    SaltBytes \cup {""} \cup
    { pbkdf2_hmac(p, x, n).val :
        p \in Passwords \cup {""}, x \in SaltBytes \cup {""}, n \in KnownInts }

\* base64.b64decode(s): characters outside the alphabet are dropped, wrong
\* padding raises
b64decode(s) ==
    IF \E x \in KnownBytes : b64encode(x) = s
    THEN [raised |-> FALSE, val |-> CHOOSE x \in KnownBytes : b64encode(x) = s]
    ELSE IF s = "!!!!"
         THEN [raised |-> FALSE, val |-> ""]
         ELSE [raised |-> TRUE, val |-> ""]

HashMeta(salt, dk, iterations) ==
    [algo |-> "pbkdf2_sha256",
     iterations |-> ToString(iterations),
     salt_b64 |-> b64encode(salt),
     hash_b64 |-> b64encode(dk)]

\* a mutant of hash_password: the stored salt is ignored, a fresh one is drawn
hash_password_fresh_salt(password, salt_b64, iterations, rnd) ==
    LET dk == pbkdf2_hmac(password, rnd, iterations)
    IN  IF dk.raised THEN [raised |-> TRUE, meta |-> NoMembers]
        ELSE [raised |-> FALSE, meta |-> HashMeta(rnd, dk.val, iterations)]

\* db.hash_password(password, salt_b64=..., iterations=...); rnd is what
\* os.urandom(16) returns if it is called.  [raised, meta]
hash_password(password, salt_b64, iterations, rnd) ==
    LET dec  == IF salt_b64 # "" THEN b64decode(salt_b64)
                ELSE [raised |-> FALSE, val |-> rnd]
        dk   == pbkdf2_hmac(password, dec.val, iterations)
    IN  IF dec.raised \/ dk.raised
        THEN [raised |-> TRUE, meta |-> NoMembers]
        ELSE [raised |-> FALSE, meta |-> HashMeta(dec.val, dk.val, iterations)]

\* the body of verify_password's try block: [raised, val]
verify_body(password, meta, rnd) ==
    IF ~meta.dict
    THEN [raised |-> TRUE, val |-> FALSE]          \* None.get: AttributeError
    ELSE IF Get(meta.f, "algo", "") # "pbkdf2_sha256"
    THEN [raised |-> FALSE, val |-> FALSE]
    ELSE LET iterations == int(Get(meta.f, "iterations", "200000"))
             salt_b64   == Get(meta.f, "salt_b64", "")
             expected   == Get(meta.f, "hash_b64", "")
             computed   == hash_password(password, salt_b64, iterations.val, rnd)
         IN  IF iterations.raised \/ computed.raised
             THEN [raised |-> TRUE, val |-> FALSE]
             ELSE [raised |-> FALSE, val |-> computed.meta.hash_b64 = expected]

\* a mutant of verify_password: no try/except around the body
verify_password_no_except(password, meta, rnd) == verify_body(password, meta, rnd)

\* db.verify_password(password, meta): [raised, val]
verify_password(password, meta, rnd) ==
    LET r == verify_body(password, meta, rnd)
    IN  IF r.raised THEN [raised |-> FALSE, val |-> FALSE] ELSE r

-----------------------------------------------------------------------------
(* The users.json files.  A file's text is [kind, entries]: kind says what *)
(* json.loads makes of it, entries are the items of a JSON object.         *)

Locations == {"cwd", "repo"}     \* DATA_DIR and REPO_ROOT/data

BlankText == [kind |-> "blank", entries |-> EmptyDict]

ObjectText(d) == [kind |-> "object", entries |-> d]

NoFile == [exists |-> FALSE, text |-> BlankText]

FileOf(text) == [exists |-> TRUE, text |-> text]

\* The world db.py acts on: [files, path, writable]
\* db.ensure_users_file: creates "{}" at USERS_PATH when it is missing; when
\* that raises, falls back to REPO_ROOT/data and moves USERS_PATH there.
ensure_users_file(w) ==
    IF w.files[w.path].exists
    THEN w
    ELSE IF w.writable[w.path]
    THEN [w EXCEPT !.files[w.path] = FileOf(ObjectText(EmptyDict))]
    ELSE IF w.files["repo"].exists
    THEN [w EXCEPT !.path = "repo"]
    ELSE IF w.writable["repo"]
    THEN [w EXCEPT !.files["repo"] = FileOf(ObjectText(EmptyDict)), !.path = "repo"]
    ELSE w

\* json.loads(raw) after raw = text.strip() or "{}": [raised, isdict, items]
json_loads(text) ==
    CASE text.kind = "blank"  -> [raised |-> FALSE, isdict |-> TRUE, items |-> EmptyDict]
      [] text.kind = "object" -> [raised |-> FALSE, isdict |-> TRUE, items |-> text.entries]
      [] text.kind = "array"  -> [raised |-> FALSE, isdict |-> FALSE, items |-> EmptyDict]
      [] OTHER                -> [raised |-> TRUE, isdict |-> FALSE, items |-> EmptyDict]

\* json.dumps(users, ...)
json_dumps(users) == ObjectText(users)

\* the loop of load_users: object values are kept under the normalized key
RECURSIVE load_items(_, _)
load_items(items, out) ==
    IF items = <<>>
    THEN out
    ELSE LET k == Head(items)[1]
             v == Head(items)[2]
         IN  load_items(Tail(items),
                        IF v.dict THEN DictSet(out, _norm_email(k), v) ELSE out)

\* USERS_PATH.read_text raises on a file that is missing or cannot be read
read_text_raises(f) == ~f.exists \/ f.text.kind = "unreadable"

\* a mutant of load_users: values that are not objects are kept too
load_users_keep_all(w) ==
    Let(ensure_users_file(w), LAMBDA w1 :
        LET f  == w1.files[w1.path]
            js == json_loads(f.text)
        IN  [w |-> w1, raised |-> FALSE,
             users |-> IF read_text_raises(f) \/ js.raised \/ ~js.isdict THEN EmptyDict
                       ELSE [i \in 1..Len(js.items) |->
                            <<_norm_email(js.items[i][1]), js.items[i][2]>>]])

\* a mutant of load_users: no try/except around the read and the parse
load_users_no_except(w) ==
    Let(ensure_users_file(w), LAMBDA w1 :
        LET f  == w1.files[w1.path]
            js == json_loads(f.text)
        IN  [w |-> w1, raised |-> read_text_raises(f) \/ js.raised,
             users |-> IF read_text_raises(f) \/ js.raised \/ ~js.isdict THEN EmptyDict
                       ELSE load_items(js.items, EmptyDict)])

\* db.load_users: [w, users, raised]; every exception of the read and the
\* parse is caught
load_users(w) ==
    Let(ensure_users_file(w), LAMBDA w1 :
        LET f  == w1.files[w1.path]
            js == json_loads(f.text)
        IN  [w |-> w1, raised |-> FALSE,
             users |-> IF read_text_raises(f) \/ js.raised \/ ~js.isdict THEN EmptyDict
                       ELSE load_items(js.items, EmptyDict)])

\* db.save_users: [w, raised]; write_text raises where nothing can be written
save_users(w, users) ==
    Let(ensure_users_file(w), LAMBDA w1 :
        IF w1.writable[w1.path]
        THEN [w |-> [w1 EXCEPT !.files[w1.path] = FileOf(json_dumps(users))],
              raised |-> FALSE]
        ELSE [w |-> w1, raised |-> TRUE])

\* db._now_iso at clock value t
_now_iso(t) == "T" \o ToString(t)

\* a mutant of the record upsert_user builds: the hash fields alone
UserRecord_hash_only(role, t, meta) == Obj(meta)

\* the record upsert_user builds: role, created_at and the fields of
\* hash_password
UserRecord(role, t, meta) ==
    Obj([role |-> role, created_at |-> _now_iso(t),
         algo |-> meta.algo, iterations |-> meta.iterations,
         salt_b64 |-> meta.salt_b64, hash_b64 |-> meta.hash_b64])

\* a mutant of upsert_user: an existing record is kept (setdefault)
upsert_user_keep_existing(w, email, password, role, rnd, t) ==
    Let(load_users(w), LAMBDA l :
        IF l.raised
        THEN [w |-> l.w, raised |-> TRUE, rec |-> None]
        ELSE LET email_n == _norm_email(email)
                 h       == hash_password(password, "", DefaultIterations, rnd)
                 users   == IF email_n \in DictKeys(l.users) THEN l.users
                       ELSE DictSet(l.users, email_n, UserRecord(role, t, h.meta))
             IN  Let(save_users(l.w, users), LAMBDA s :
                     [w |-> s.w, raised |-> s.raised,
                      rec |-> IF s.raised THEN None ELSE DictGet(users, email_n)]))

\* a mutant of upsert_user: the record is written into an empty document
upsert_user_fresh_dict(w, email, password, role, rnd, t) ==
    Let(load_users(w), LAMBDA l :
        IF l.raised
        THEN [w |-> l.w, raised |-> TRUE, rec |-> None]
        ELSE LET email_n == _norm_email(email)
                 h       == hash_password(password, "", DefaultIterations, rnd)
                 users   == DictSet(EmptyDict, email_n, UserRecord(role, t, h.meta))
             IN  Let(save_users(l.w, users), LAMBDA s :
                     [w |-> s.w, raised |-> s.raised,
                      rec |-> IF s.raised THEN None ELSE DictGet(users, email_n)]))

\* db.upsert_user(email, password, role): [w, raised, rec]
upsert_user(w, email, password, role, rnd, t) ==
    Let(load_users(w), LAMBDA l :
        IF l.raised
        THEN [w |-> l.w, raised |-> TRUE, rec |-> None]
        ELSE LET email_n == _norm_email(email)
                 h       == hash_password(password, "", DefaultIterations, rnd)
                 users   == DictSet(l.users, email_n, UserRecord(role, t, h.meta))
             IN  Let(save_users(l.w, users), LAMBDA s :
                     [w |-> s.w, raised |-> s.raised,
                      rec |-> IF s.raised THEN None ELSE DictGet(users, email_n)]))

\* db.get_user_by_email(email): [w, rec, raised]
get_user_by_email(w, email) ==
    Let(load_users(w), LAMBDA l :
        [w |-> l.w, raised |-> l.raised,
         rec |-> IF l.raised THEN None ELSE DictGet(l.users, _norm_email(email))])

\* a mutant of has_any_user: len(...) >= 0
has_any_user_always(w) ==
    Let(load_users(w), LAMBDA l :
        [w |-> l.w, raised |-> l.raised, val |-> Len(l.users) >= 0])

\* db.has_any_user(): [w, val, raised]
has_any_user(w) ==
    Let(load_users(w), LAMBDA l :
        [w |-> l.w, raised |-> l.raised, val |-> ~l.raised /\ Len(l.users) > 0])

-----------------------------------------------------------------------------
(* The TTL cache: table kv_cache of db.get_conn, and the operations of     *)
(* src/services/cache_store.py that finance_data.py and analysis.py call.  *)
(* Python values are written as their repr, stored texts as JSON.          *)

CacheKeys == {"yf:quote:AAPL", "yf:profile:AAPL"}

\* JSON-safe values a caller stores
CacheValues == {"None", "'v1'", "[1]"}

\* what a loader can return: those, and a tuple
FnValues == CacheValues \cup {"(1,)"}

\* the ttl_seconds arguments: a positive integer, or None for no expiry
TTLs == { [has |-> TRUE, n |-> n] : n \in 1..MaxTTL } \cup { [has |-> FALSE, n |-> 0] }

\* the miss indicator of cache_get
Miss == "None"

\* json.dumps(value) of a JSON-safe value
dumps_value(v) ==
    CASE v = "None" -> "null"
      [] v = "'v1'" -> "\"v1\""
      [] v = "[1]"  -> "[1]"
      [] v = "(1,)" -> "[1]"
      [] OTHER      -> "null"

\* json.loads(text): [raised, val]
loads_value(text) ==
    CASE text = "null"     -> [raised |-> FALSE, val |-> "None"]
      [] text = "\"v1\""   -> [raised |-> FALSE, val |-> "'v1'"]
      [] text = "[1]"      -> [raised |-> FALSE, val |-> "[1]"]
      [] OTHER             -> [raised |-> TRUE, val |-> "None"]

\* finance_data._json_safe: tuples become lists, JSON values stay
_json_safe(x) ==
    IF x = "(1,)" THEN "[1]" ELSE x

NoDatabase == [exists |-> FALSE, rows |-> {}]

\* a mutant of get_conn: the table is created anew on every connection
get_conn_recreate(db) == [exists |-> TRUE, rows |-> {}]

\* db.get_conn: CREATE TABLE IF NOT EXISTS kv_cache (key PRIMARY KEY,
\* value_json NOT NULL, created_at NOT NULL, ttl_seconds)
get_conn(db) == [exists |-> TRUE, rows |-> db.rows]

\* a mutant of the table: ttl_seconds INTEGER NOT NULL DEFAULT 0
Row_ttl_not_null(key, value_json, created_at, ttl) ==
    [key |-> key, value_json |-> value_json, created_at |-> created_at,
     has_ttl |-> TRUE, ttl_seconds |-> ttl.n]

\* a row of table kv_cache
Row(key, value_json, created_at, ttl) ==
    [key |-> key, value_json |-> value_json, created_at |-> created_at,
     has_ttl |-> ttl.has, ttl_seconds |-> ttl.n]

\* a mutant of cache_get: an entry expires only after created_at + ttl_seconds
cache_get_late(db, key, t) ==
    LET rows == { r \in get_conn(db).rows : r.key = key }
    IN  IF rows = {} THEN Miss
        ELSE LET r == CHOOSE r \in rows : TRUE
                 js == loads_value(r.value_json)
             IN  IF r.has_ttl /\ t > r.created_at + r.ttl_seconds THEN Miss
                 ELSE IF js.raised THEN Miss
                 ELSE js.val

\* cache_store.cache_get(key) at time t: the value, or the miss indicator
cache_get(db, key, t) ==
    LET rows == { r \in get_conn(db).rows : r.key = key }
    IN  IF rows = {} THEN Miss
        ELSE LET r == CHOOSE r \in rows : TRUE
                 js == loads_value(r.value_json)
             IN  IF r.has_ttl /\ t >= r.created_at + r.ttl_seconds THEN Miss
                 ELSE IF js.raised THEN Miss
                 ELSE js.val

\* a mutant of the table: key TEXT without PRIMARY KEY, rows pile up
insert_row_no_primary_key(rows, row) == rows \cup {row}

\* kv_cache(key TEXT PRIMARY KEY, ...): a written row takes the place of the
\* row of the same key
insert_row(rows, row) == { r \in rows : r.key # row.key } \cup {row}

\* a mutant of cache_set: a plain INSERT next to the rows already there
cache_set_append(db, key, value, ttl, t) ==
    LET c == get_conn(db)
    IN  [c EXCEPT !.rows = @ \cup {Row(key, dumps_value(value), t, ttl)}]

\* a mutant of cache_set: the row keeps the created_at of the one it replaces
cache_set_keep_time(db, key, value, ttl, t) ==
    LET c   == get_conn(db)
        old == { r \in c.rows : r.key = key }
        at  == IF old = {} THEN t ELSE (CHOOSE r \in old : TRUE).created_at
    IN  [c EXCEPT !.rows = insert_row(@, Row(key, dumps_value(value), at, ttl))]

\* cache_store.cache_set(key, value, ttl_seconds) at time t: the database after
cache_set(db, key, value, ttl, t) ==
    LET c == get_conn(db)
    IN  [c EXCEPT !.rows = insert_row(@, Row(key, dumps_value(value), t, ttl))]

\* a mutant of cache_clear_all: only expired entries are deleted
cache_clear_expired(db, t) ==
    LET c == get_conn(db)
    IN  [c EXCEPT !.rows = { r \in @ : ~(r.has_ttl /\ t >= r.created_at + r.ttl_seconds) }]

\* cache_store.cache_clear_all(): the database after
cache_clear_all(db) ==
    LET c == get_conn(db)
    IN  [c EXCEPT !.rows = {}]

\* a mutant of _cache_get_or_set: the value computed on a miss is not written
cache_get_or_set_no_write(db, key, ttl, fnval, t) ==
    LET hit == cache_get(db, key, t)
    IN  IF hit # "None"
        THEN [db |-> get_conn(db), val |-> hit, called |-> FALSE]
        ELSE [db |-> get_conn(db), val |-> _json_safe(fnval), called |-> TRUE]

\* finance_data._cache_get_or_set(key, ttl, fn) where fn returns fnval:
\* [db, val, called]
_cache_get_or_set(db, key, ttl, fnval, t) ==
    LET hit == cache_get(db, key, t)
    IN  IF hit # "None"
        THEN [db |-> get_conn(db), val |-> hit, called |-> FALSE]
        ELSE LET val == _json_safe(fnval)
             IN  [db |-> cache_set(db, key, val, ttl, t), val |-> val, called |-> TRUE]

-----------------------------------------------------------------------------
(* The usage limiter (services/usage_limits.py) and its caller *)

Days == 0..MaxDay

Limits == 1..MaxLimit

Costs == 1..MaxCost

\* a mutant of the counter: one counter per user, whatever the date
count_for_any_day(u, user_id, d) == u[<<user_id, 0>>]

\* the counter of user_id on day d; a day without a counter counts 0
count_for(u, user_id, d) == u[<<user_id, d>>]

Max(a, b) == IF a >= b THEN a ELSE b

\* a mutant of remaining_searches: the difference, not floored at 0
remaining_searches_signed(u, user_id, daily_limit, d) ==
    daily_limit - count_for(u, user_id, d)

\* usage_limits.remaining_searches(user_id, daily_limit) on day d
remaining_searches(u, user_id, daily_limit, d) ==
    Max(0, daily_limit - count_for(u, user_id, d))

\* a mutant of consume_search: the quota is compared with <, one search short
consume_search_one_short(u, user_id, daily_limit, cost, d) ==
    LET c == count_for(u, user_id, d)
    IN  IF c + cost < daily_limit
        THEN [usage |-> [u EXCEPT ![<<user_id, d>>] = c + cost], ok |-> TRUE,
              rem |-> daily_limit - (c + cost)]
        ELSE [usage |-> u, ok |-> FALSE, rem |-> Max(0, daily_limit - c)]

\* a mutant of consume_search: a refused call is counted all the same, up to the limit
consume_search_charge_refused(u, user_id, daily_limit, cost, d) ==
    LET c == count_for(u, user_id, d)
    IN  IF c + cost <= daily_limit
        THEN [usage |-> [u EXCEPT ![<<user_id, d>>] = c + cost], ok |-> TRUE,
              rem |-> daily_limit - (c + cost)]
        ELSE [usage |-> [u EXCEPT ![<<user_id, d>>] = Max(c, daily_limit)],
              ok |-> FALSE, rem |-> 0]

\* usage_limits.consume_search(user_id, daily_limit, cost) on day d:
\* [usage, ok, rem]
consume_search(u, user_id, daily_limit, cost, d) ==
    LET c == count_for(u, user_id, d)
    IN  IF c + cost <= daily_limit
        THEN [usage |-> [u EXCEPT ![<<user_id, d>>] = c + cost], ok |-> TRUE,
              rem |-> daily_limit - (c + cost)]
        ELSE [usage |-> u, ok |-> FALSE, rem |-> Max(0, daily_limit - c)]

\* page_analysis: DAILY_LIMIT = 3
DAILY_LIMIT == 3

\* page_analysis, "Consume SOLO si NO es admin": [usage, consumed, ok, rem,
\* fetch], fetch telling whether the run goes on to the data fetches
page_search(u, admin, user_email, d) ==
    IF (~admin) /\ user_email # <<>>
    THEN LET r == consume_search(u, user_email, DAILY_LIMIT, 1, d)
         IN  [usage |-> r.usage, consumed |-> TRUE, ok |-> r.ok, rem |-> r.rem,
              fetch |-> r.ok]
    ELSE [usage |-> u, consumed |-> FALSE, ok |-> FALSE, rem |-> 0, fetch |-> TRUE]

-----------------------------------------------------------------------------
(* The components at rest *)

NoLimiterCall == [op |-> "none", user |-> <<>>, limit |-> 0, cost |-> 0,
                  ok |-> FALSE, rem |-> 0, page |-> FALSE, retry |-> FALSE]

NoCalls == [mode |-> "none", limit |-> 0, n |-> 0]

\* the limiter on day 0, no search counted
IdleLimiter ==
    /\ usage = [k \in NormEmails \X Days |-> 0]
    /\ today = 0
    /\ lret = NoLimiterCall
    /\ hist = [e \in NormEmails |-> NoCalls]

NoCacheCall == [op |-> "none", key |-> "", value |-> "None", called |-> FALSE,
                over |-> FALSE, fresh |-> FALSE]

NeverSet == [status |-> "never", value |-> "None", at |-> 0,
             ttl |-> [has |-> FALSE, n |-> 0]]

\* the cache before its first use
IdleCache ==
    /\ kv_cache = NoDatabase
    /\ cret = NoCacheCall
    /\ wrote = [k \in CacheKeys |-> NeverSet]

NoYfCall == [pc |-> "idle", max_attempts |-> 0, attempt |-> 0, log |-> <<>>,
             last |-> "None", slept |-> 0, result |-> "None", error |-> "None"]

\* no yf_call under way
IdleYf == yf = NoYfCall

\* st.session_state without the keys of auth.py; a key that is absent reads as
\* FALSE, "" or the empty e-mail
NoSession == [auth_ok |-> FALSE, auth_email |-> <<>>, auth_role |-> "",
              is_admin |-> FALSE]

\* a form nobody has filled in or submitted
NoForm == [email |-> <<>>, pwd |-> "", pwd2 |-> "", ok |-> FALSE]

\* no page has run: the fields say which page ran, for which session (logged
\* in, admin, the e-mail the limiter is asked for) and store (empty), the form
\* it got, what it showed and returned, and the calls it made, in order
NoRun == [page |-> "none", logged_in |-> FALSE, admin |-> FALSE, empty |-> FALSE,
          user |-> <<>>, form |-> NoForm, shown |-> "none", ret |-> FALSE, outcome |-> "none",
          raised |-> FALSE, events |-> <<>>]

\* the threads that call upsert_user at the same time
Threads == {1, 2}

\* a thread that has not called upsert_user: pc is the statement it is at,
\* users the dict load_users returned to it, rec what the call returned
NoUpsert == [pc |-> "idle", email |-> <<>>, password |-> "", role |-> "",
             users |-> <<>>, rec |-> [dict |-> FALSE, f |-> [k \in {} |-> ""]]]

\* a browser session before its first run, no thread in upsert_user
IdleSession ==
    /\ session = NoSession
    /\ run = NoRun
    /\ proc = [i \in Threads |-> NoUpsert]

-----------------------------------------------------------------------------
(* The credential store as a state machine *)

World == [files |-> files, path |-> USERS_PATH, writable |-> writable]

SetWorld(w) ==
    /\ files' = w.files
    /\ USERS_PATH' = w.path
    /\ UNCHANGED writable

NoCall ==
    [op |-> "none", email |-> <<>>, password |-> "", old |-> "",
     raised |-> FALSE, val |-> FALSE, rec |-> None]

\* the normal form of an e-mail, for the history variable
Canon(email) == str_lower(str_strip(email))

\* a record as scripts/generate_users_json.py writes it
SeedRecord(password, salt, role) ==
    UserRecord(role, 0, hash_password(password, "", DefaultIterations, salt).meta)

InitTexts ==
    { BlankText,
      [kind |-> "garbage", entries |-> EmptyDict],
      [kind |-> "array", entries |-> EmptyDict],
      [kind |-> "unreadable", entries |-> EmptyDict],
      [kind |-> "unreadable",
       entries |-> << <<(<<"a", "@", "x">>), SeedRecord("pw1", "s1", "admin")>> >>],
      ObjectText(EmptyDict),
      ObjectText(<< <<(<<"A", "@", "x">>), SeedRecord("pw1", "s1", "admin")>> >>),
      ObjectText(<< <<(<<"a", "@", "x">>), None>>,
                    <<(<<"b", "@", "x">>), SeedRecord("pw2", "s2", "user")>> >>),
      ObjectText(<< <<(<<"a", "@", "x">>), None>> >>),
      ObjectText(<< <<(<<"a", "x">>), SeedRecord("pw2", "s1", "user")>> >>),
      ObjectText(<< <<(<<"A", "@", "x">>), SeedRecord("pw1", "s1", "admin")>>,
                    <<(<<"a", "@", "x">>), SeedRecord("pw2", "s1", "user")>> >>) }

InitRepoTexts ==
    { ObjectText(<< <<(<<"b", "@", "x">>), SeedRecord("pw1", "s2", "admin")>> >>) }

\* The worlds a run starts in: the working directory holds any of the
\* documents and is writable or not; where it holds none and is read-only,
\* the repository's data directory decides.
InitWorlds ==
    { [files |-> [cwd |-> f, repo |-> NoFile],
       writable |-> [cwd |-> wc, repo |-> TRUE]] :
         f \in {NoFile} \cup {FileOf(t) : t \in InitTexts}, wc \in BOOLEAN }
    \cup
    { [files |-> [cwd |-> NoFile, repo |-> f],
       writable |-> [cwd |-> FALSE, repo |-> wr]] :
         f \in {NoFile} \cup {FileOf(t) : t \in InitRepoTexts}, wr \in BOOLEAN }

\* the credential store at rest, for the specifications of other components
IdleCred ==
    /\ files = [cwd |-> NoFile, repo |-> NoFile]
    /\ writable = [cwd |-> TRUE, repo |-> TRUE]
    /\ USERS_PATH = "cwd"
    /\ ret = NoCall
    /\ lastPw = [e \in NormEmails |-> ""]

InitCred ==
    /\ \E w \in InitWorlds : files = w.files /\ writable = w.writable
    /\ USERS_PATH = "cwd"
    /\ ret = NoCall
    /\ lastPw = [e \in NormEmails |-> ""]

\* upsert_user(email, password, role) is called
UpsertUser(email, password, role, rnd) ==
    LET r == upsert_user(World, email, password, role, rnd, now)
    IN  /\ SetWorld(r.w)
        /\ ret' = [op |-> "upsert_user", email |-> email, password |-> password,
                   old |-> lastPw[Canon(email)],
                   raised |-> r.raised, val |-> FALSE, rec |-> r.rec]
        /\ lastPw' = IF r.raised THEN lastPw
                     ELSE [lastPw EXCEPT ![Canon(email)] = password]
        /\ UNCHANGED <<now, verVars, cacheVars, limVars, yfVars, sessVars>>

\* get_user_by_email(email) is called
GetUserByEmail(email) ==
    LET r == get_user_by_email(World, email)
    IN  /\ SetWorld(r.w)
        /\ ret' = [op |-> "get_user_by_email", email |-> email, password |-> "",
                   old |-> "", raised |-> r.raised, val |-> FALSE, rec |-> r.rec]
        /\ UNCHANGED <<lastPw, now, verVars, cacheVars, limVars, yfVars, sessVars>>

\* has_any_user() is called
HasAnyUser ==
    LET r == has_any_user(World)
    IN  /\ SetWorld(r.w)
        /\ ret' = [op |-> "has_any_user", email |-> <<>>, password |-> "",
                   old |-> "", raised |-> r.raised, val |-> r.val, rec |-> None]
        /\ UNCHANGED <<lastPw, now, verVars, cacheVars, limVars, yfVars, sessVars>>

NextCred ==
    \/ \E email \in RawEmails, password \in Passwords, role \in Roles, rnd \in SaltBytes :
          UpsertUser(email, password, role, rnd)
    \/ \E email \in RawEmails : GetUserByEmail(email)
    \/ HasAnyUser

NoVerifyCall ==
    [password |-> "", meta |-> None, rnd |-> "", done |-> FALSE,
     raised |-> FALSE, val |-> FALSE]

vars == <<files, USERS_PATH, writable, now, ret, lastPw, vcall,
          kv_cache, cret, wrote, usage, today, lret, hist, yf, session, run, proc>>

InitCredSpec ==
    /\ InitCred
    /\ now = 0
    /\ vcall = NoVerifyCall
    /\ IdleCache
    /\ IdleLimiter
    /\ IdleYf
    /\ IdleSession

SpecCred == InitCredSpec /\ [][NextCred]_vars

-----------------------------------------------------------------------------
(* verify_password as a pure function: the inputs are drawn at the start,  *)
(* the one action applies it.                                              *)

\* passwords a caller may try
Guesses == Passwords \cup {""}

\* members m without the keys in ks
Without(m, ks) == [k \in (DOMAIN m) \ ks |-> m[k]]

\* members m with m[k] = v
With(m, k, v) == [x \in (DOMAIN m) \cup {k} |-> IF x = k THEN v ELSE m[x]]

\* the record upsert_user stores for password pw1 with salt s1
BaseMembers == SeedRecord("pw1", "s1", "user").f

TestMetas ==
    { None,
      Obj(NoMembers),
      Obj(BaseMembers),
      Obj(Without(BaseMembers, {"algo"})),
      Obj(With(BaseMembers, "algo", "bcrypt")),
      Obj(Without(BaseMembers, {"iterations"})),
      Obj(With(BaseMembers, "iterations", "abc")),
      Obj(With(BaseMembers, "iterations", "0")),
      Obj(With(BaseMembers, "iterations", "1")),
      Obj(Without(BaseMembers, {"salt_b64"})),
      Obj(With(BaseMembers, "salt_b64", "abc")),
      Obj(With(BaseMembers, "salt_b64", "!!!!")),
      Obj(Without(BaseMembers, {"hash_b64"})),
      Obj(With(BaseMembers, "hash_b64", "zzz")),
      Obj(Without(BaseMembers, {"salt_b64", "hash_b64"})),
      Obj(Without(BaseMembers, {"iterations", "salt_b64"})),
      Obj([algo |-> "pbkdf2_sha256"]) }

InitVerify ==
    /\ IdleCred
    /\ IdleCache
    /\ IdleLimiter
    /\ IdleYf
    /\ IdleSession
    /\ now = 0
    /\ \E password \in Guesses, meta \in TestMetas, rnd \in SaltBytes :
          vcall = [password |-> password, meta |-> meta, rnd |-> rnd,
                   done |-> FALSE, raised |-> FALSE, val |-> FALSE]

\* verify_password(password, meta) is called
VerifyPassword ==
    /\ ~vcall.done
    /\ LET r == verify_password(vcall.password, vcall.meta, vcall.rnd)
       IN  vcall' = [vcall EXCEPT !.done = TRUE, !.raised = r.raised, !.val = r.val]
    /\ UNCHANGED <<credVars, now, cacheVars, limVars, yfVars, sessVars>>

NextVerify == VerifyPassword

SpecVerify == InitVerify /\ [][NextVerify]_vars

-----------------------------------------------------------------------------
(* Claims about the credential store *)

\* the text of the users.json file at path p holds a user record
HoldsRecord(f) ==
    /\ f.exists
    /\ f.text.kind = "object"
    /\ \E i \in 1..Len(f.text.entries) : f.text.entries[i][2].dict

\* C1: the record upsert_user(email, password, role) returns makes
\* verify_password(password, record) true, and so does the record a later
\* get_user_by_email returns for that e-mail, in any spelling of it.
C1_PasswordRoundTrip ==
    /\ (ret.op = "upsert_user" /\ ~ret.raised) =>
          \A rnd \in SaltBytes : verify_password(ret.password, ret.rec, rnd).val
    /\ (ret.op = "get_user_by_email" /\ lastPw[Canon(ret.email)] # "") =>
          \A rnd \in SaltBytes :
              verify_password(lastPw[Canon(ret.email)], ret.rec, rnd).val

\* C1 witness: get_user_by_email has returned the record of an upserted user
\* for an e-mail spelled with spaces and capitals
C1_Witness ==
    /\ ret.op = "get_user_by_email"
    /\ ret.email # Canon(ret.email)
    /\ lastPw[Canon(ret.email)] # ""
    /\ ret.rec.dict

\* C2: a record stored by upsert_user with password p verifies no other
\* password q; after a second upsert_user of the e-mail with a new password the
\* stored record no longer verifies the old one.
C2_WrongPasswordRejected ==
    /\ (ret.op = "upsert_user" /\ ~ret.raised) =>
          \A q \in Guesses \ {ret.password}, rnd \in SaltBytes :
              ~verify_password(q, ret.rec, rnd).val
    /\ \A e \in RawEmails : lastPw[Canon(e)] # "" =>
          \A q \in Guesses \ {lastPw[Canon(e)]}, rnd \in SaltBytes :
              ~verify_password(q, get_user_by_email(World, e).rec, rnd).val

\* C2 witness: an e-mail has been upserted a second time, with another password
C2_Witness ==
    /\ ret.op = "upsert_user"
    /\ ~ret.raised
    /\ ret.old \notin {"", ret.password}

C4_WitnessTrue ==
    /\ ret.op = "has_any_user"
    /\ ret.val
    /\ \E e \in NormEmails : lastPw[e] # ""

-----------------------------------------------------------------------------
(* Claims about verify_password on malformed records *)

Missing(meta, k) == ~meta.dict \/ k \notin DOMAIN meta.f

Present(meta, k) == meta.dict /\ k \in DOMAIN meta.f

\* the records C3 speaks of: a wrong algorithm identifier, or one of the four
\* fields missing or undecodable
ClaimedMalformed(meta) ==
    \/ \E k \in {"algo", "iterations", "salt_b64", "hash_b64"} : Missing(meta, k)
    \/ meta.f["algo"] # "pbkdf2_sha256"
    \/ int(meta.f["iterations"]).raised
    \/ b64decode(meta.f["salt_b64"]).raised
    \/ b64decode(meta.f["hash_b64"]).raised

\* the records verify_password rejects whatever the password
Rejected(meta) ==
    \/ ~meta.dict
    \/ Missing(meta, "algo")
    \/ meta.f["algo"] # "pbkdf2_sha256"
    \/ Present(meta, "iterations") /\
          (int(meta.f["iterations"]).raised \/ int(meta.f["iterations"]).val < 1)
    \/ Present(meta, "salt_b64") /\ b64decode(meta.f["salt_b64"]).raised
    \/ Missing(meta, "hash_b64")
    \/ b64decode(meta.f["hash_b64"]).raised

-----------------------------------------------------------------------------
(* The cache as a state machine *)

\* rows an earlier process left: a valid one, and one whose text is not JSON
InitRows ==
    { {},
      {Row("yf:quote:AAPL", "{oops", 0, [has |-> FALSE, n |-> 0])},
      {Row("yf:profile:AAPL", "\"v1\"", 0, [has |-> TRUE, n |-> 1])} }

InitCache ==
    /\ kv_cache \in {NoDatabase} \cup { [exists |-> TRUE, rows |-> rs] : rs \in InitRows }
    /\ cret = NoCacheCall
    /\ wrote = [k \in CacheKeys |-> NeverSet]

\* does the set replace an entry that differs in value and in ttl
Overwrites(key, value, ttl) ==
    /\ wrote[key].status = "set"
    /\ wrote[key].value # value
    /\ wrote[key].ttl # ttl
    /\ wrote[key].at # now

\* cache_set(key, value, ttl_seconds=ttl) is called
CacheSet(key, value, ttl) ==
    /\ kv_cache' = cache_set(kv_cache, key, value, ttl, now)
    /\ cret' = [op |-> "set", key |-> key, value |-> value, called |-> FALSE,
                over |-> Overwrites(key, value, ttl), fresh |-> FALSE]
    /\ wrote' = [wrote EXCEPT ![key] =
                    [status |-> "set", value |-> value, at |-> now, ttl |-> ttl]]
    /\ UNCHANGED <<credVars, now, verVars, limVars, yfVars, sessVars>>

\* was the last event a cache_set of this key, or reads of it right after one
JustSet(key) ==
    /\ cret.key = key
    /\ \/ cret.op = "set"
       \/ cret.op = "get_or_set" /\ cret.called
       \/ cret.op = "get" /\ cret.fresh

\* cache_get(key) is called
CacheGet(key) ==
    /\ kv_cache' = get_conn(kv_cache)
    /\ cret' = [op |-> "get", key |-> key, value |-> cache_get(kv_cache, key, now),
                called |-> FALSE, over |-> FALSE, fresh |-> JustSet(key)]
    /\ UNCHANGED <<wrote, credVars, now, verVars, limVars, yfVars, sessVars>>

\* a mutant of the handler: it reports success without clearing
clear_cache_click_noop(db, admin) == get_conn(db)

\* the handler of the admin's "Limpiar cache" button in page_analysis
clear_cache_click(db, admin) ==
    IF admin THEN cache_clear_all(db) ELSE db

\* the "Limpiar cache" button is pressed; only an admin has the button
ClearCacheButton(admin) ==
    /\ admin
    /\ kv_cache' = clear_cache_click(kv_cache, admin)
    /\ cret' = [op |-> "clear_all", key |-> "", value |-> "None", called |-> FALSE,
                over |-> FALSE, fresh |-> FALSE]
    /\ wrote' = [k \in CacheKeys |->
                    IF wrote[k].status = "never" THEN wrote[k]
                    ELSE [wrote[k] EXCEPT !.status = "cleared"]]
    /\ UNCHANGED <<credVars, now, verVars, limVars, yfVars, sessVars>>

\* _cache_get_or_set(key, ttl, fn) is called and fn, if called, returns fnval
CacheGetOrSet(key, ttl, fnval) ==
    LET r == _cache_get_or_set(kv_cache, key, ttl, fnval, now)
    IN  /\ kv_cache' = r.db
        /\ cret' = [op |-> "get_or_set", key |-> key, value |-> r.val,
                    called |-> r.called, over |-> FALSE, fresh |-> FALSE]
        /\ wrote' = IF r.called
                    THEN [wrote EXCEPT ![key] =
                            [status |-> "set", value |-> r.val, at |-> now, ttl |-> ttl]]
                    ELSE wrote
        /\ UNCHANGED <<credVars, now, verVars, limVars, yfVars, sessVars>>

\* a second passes
TickCache ==
    /\ now < MaxTime
    /\ now' = now + 1
    /\ cret' = NoCacheCall
    /\ UNCHANGED <<kv_cache, wrote, credVars, verVars, limVars, yfVars, sessVars>>

NextCache ==
    \/ \E key \in CacheKeys, value \in CacheValues, ttl \in TTLs : CacheSet(key, value, ttl)
    \/ \E key \in CacheKeys : CacheGet(key)
    \/ \E admin \in BOOLEAN : ClearCacheButton(admin)
    \/ \E key \in CacheKeys, ttl \in TTLs, fnval \in FnValues : CacheGetOrSet(key, ttl, fnval)
    \/ TickCache

InitCacheSpec ==
    /\ IdleCred
    /\ now = 0
    /\ vcall = NoVerifyCall
    /\ InitCache
    /\ IdleLimiter
    /\ IdleYf
    /\ IdleSession

SpecCache == InitCacheSpec /\ [][NextCache]_vars

-----------------------------------------------------------------------------
(* Claims about the cache *)

\* what the last write of key k lets a read at time t return
Expected(k, t) ==
    IF wrote[k].ttl.has /\ t >= wrote[k].at + wrote[k].ttl.n
    THEN Miss
    ELSE wrote[k].value

\* C5: cache_get(k) issued right after cache_set(k, v, ttl), with no time
\* elapsed and no other set or clear between, returns v.
C5_CacheRoundTrip ==
    (cret.op = "get" /\ cret.fresh) => cret.value = wrote[cret.key].value

\* C5 witness: a get right after a set with a ttl has returned its value
C5_Witness ==
    /\ cret.op = "get"
    /\ cret.fresh
    /\ cret.value # Miss
    /\ wrote[cret.key].ttl.has

\* C6: an entry written at created_at with ttl_seconds reads as a miss at every
\* time now >= created_at + ttl_seconds, equality included, and as its value
\* before; an entry without ttl_seconds never turns into a miss.
C6_CacheExpiry ==
    \A k \in CacheKeys : wrote[k].status = "set" =>
        LET w == wrote[k]
            v == cache_get(kv_cache, k, now)
        IN  /\ (w.ttl.has /\ now >= w.at + w.ttl.n) => v = Miss
            /\ (w.ttl.has /\ now < w.at + w.ttl.n) => v = w.value
            /\ ~w.ttl.has => v = w.value

\* C6 witness: a get at exactly created_at + ttl_seconds has missed
C6_Witness ==
    /\ cret.op = "get"
    /\ wrote[cret.key].status = "set"
    /\ wrote[cret.key].ttl.has
    /\ now = wrote[cret.key].at + wrote[cret.key].ttl.n
    /\ wrote[cret.key].value # Miss
    /\ cret.value = Miss

\* C7: after set(k, v1, ttl1) and then set(k, v2, ttl2) the table holds one row
\* for k, the one of the second set with its timestamp and ttl2, and a get
\* returns v2 or a miss, never v1.
C7_CacheOverwrite ==
    /\ \A k \in CacheKeys : wrote[k].status = "set" =>
          { r \in kv_cache.rows : r.key = k } =
              { [key |-> k, value_json |-> dumps_value(wrote[k].value),
                 created_at |-> wrote[k].at, has_ttl |-> wrote[k].ttl.has,
                 ttl_seconds |-> wrote[k].ttl.n] }
    /\ (cret.op = "get" /\ wrote[cret.key].status = "set") =>
          cret.value = Expected(cret.key, now)

\* C7 witness: a set has replaced an entry of another value, ttl and time
C7_Witness ==
    /\ cret.op = "set"
    /\ cret.over

\* C8: after cache_clear_all() a get misses for every key that was set before,
\* whatever its ttl, until the key is set again.
C8_ClearAllMisses ==
    /\ \A k \in CacheKeys :
          wrote[k].status = "cleared" => cache_get(kv_cache, k, now) = Miss
    /\ (cret.op = "get" /\ wrote[cret.key].status = "cleared") => cret.value = Miss
    /\ cret.op = "clear_all" => kv_cache.rows = {}

\* C8 witness: a get has missed a key that was set without expiry and cleared
C8_Witness ==
    /\ cret.op = "get"
    /\ wrote[cret.key].status = "cleared"
    /\ ~wrote[cret.key].ttl.has
    /\ wrote[cret.key].value # Miss
    /\ cret.value = Miss

-----------------------------------------------------------------------------
(* The usage limiter as a state machine *)

\* the calls of a user today, after consume(daily_limit, cost): "unit" while
\* every call had cost 1 and the same limit (n counts them, up to one more than
\* the limit), "fixed" while the limit was the same, "mixed" otherwise
Called(h, daily_limit, cost) ==
    CASE h.mode = "none" ->
             IF cost = 1 THEN [mode |-> "unit", limit |-> daily_limit, n |-> 1]
                         ELSE [mode |-> "fixed", limit |-> daily_limit, n |-> 0]
      [] h.mode = "unit" ->
             IF daily_limit # h.limit THEN [mode |-> "mixed", limit |-> 0, n |-> 0]
             ELSE IF cost = 1 THEN [h EXCEPT !.n = IF @ <= h.limit THEN @ + 1 ELSE @]
             ELSE [mode |-> "fixed", limit |-> daily_limit, n |-> 0]
      [] h.mode = "fixed" ->
             IF daily_limit # h.limit THEN [mode |-> "mixed", limit |-> 0, n |-> 0]
             ELSE h
      [] OTHER -> h

\* the call comes after a refused call of the same user and limit that asked more
Retry(user_id, daily_limit, cost) ==
    /\ lret.op = "consume"
    /\ ~lret.ok
    /\ lret.user = user_id
    /\ lret.limit = daily_limit
    /\ lret.cost > cost

Remaining(user_id, daily_limit) ==
    /\ lret' = [NoLimiterCall EXCEPT !.op = "remaining", !.user = user_id,
                  !.limit = daily_limit,
                  !.rem = remaining_searches(usage, user_id, daily_limit, today)]
    /\ UNCHANGED <<usage, today, hist, credVars, now, verVars, cacheVars, yfVars, sessVars>>

Consume(user_id, daily_limit, cost) ==
    /\ LET r == consume_search(usage, user_id, daily_limit, cost, today)
       IN  /\ usage' = r.usage
           /\ lret' = [op |-> "consume", user |-> user_id, limit |-> daily_limit,
                       cost |-> cost, ok |-> r.ok, rem |-> r.rem, page |-> FALSE,
                       retry |-> Retry(user_id, daily_limit, cost)]
    /\ hist' = [hist EXCEPT ![user_id] = Called(@, daily_limit, cost)]
    /\ UNCHANGED <<today, credVars, now, verVars, cacheVars, yfVars, sessVars>>

\* a run of page_analysis that reaches the search, for the session's user
PageSearch(admin, user_email) ==
    /\ LET r == page_search(usage, admin, user_email, today)
       IN  /\ usage' = r.usage
           /\ lret' = IF r.consumed
                      THEN [op |-> "consume", user |-> user_email,
                            limit |-> DAILY_LIMIT, cost |-> 1, ok |-> r.ok,
                            rem |-> r.rem, page |-> TRUE, retry |-> FALSE]
                      ELSE [NoLimiterCall EXCEPT !.op = "skip", !.user = user_email,
                                                 !.page = TRUE]
           /\ hist' = IF r.consumed
                      THEN [hist EXCEPT ![user_email] = Called(@, DAILY_LIMIT, 1)]
                      ELSE hist
    /\ UNCHANGED <<today, credVars, now, verVars, cacheVars, yfVars, sessVars>>

\* midnight
NextDay ==
    /\ today < MaxDay
    /\ today' = today + 1
    /\ lret' = NoLimiterCall
    /\ hist' = [e \in NormEmails |-> NoCalls]
    /\ UNCHANGED <<usage, credVars, now, verVars, cacheVars, yfVars, sessVars>>

NextLimiter ==
    \/ \E user_id \in NormEmails, daily_limit \in Limits : Remaining(user_id, daily_limit)
    \/ \E user_id \in NormEmails, daily_limit \in Limits, cost \in Costs :
          Consume(user_id, daily_limit, cost)
    \/ \E admin \in BOOLEAN, user_email \in NormEmails \cup {<<>>} :
          PageSearch(admin, user_email)

\* the dashboard over the days: the limit box and the searches of page_analysis
NextRollover ==
    \/ \E user_id \in NormEmails : Remaining(user_id, DAILY_LIMIT)
    \/ \E admin \in BOOLEAN, user_email \in NormEmails \cup {<<>>} :
          PageSearch(admin, user_email)
    \/ NextDay

InitLimiterSpec ==
    /\ IdleCred
    /\ now = 0
    /\ vcall = NoVerifyCall
    /\ IdleCache
    /\ IdleLimiter
    /\ IdleYf
    /\ IdleSession

\* the calls of one day
SpecLimiter == InitLimiterSpec /\ [][NextLimiter]_vars

SpecRollover == InitLimiterSpec /\ [][NextRollover]_vars

-----------------------------------------------------------------------------
(* Claims about the usage limiter *)

Min(a, b) == IF a <= b THEN a ELSE b

\* C9: from zero usage of a user on a day, with daily_limit L and cost 1, the
\* first L calls of consume succeed and every later call fails; remaining is L
\* before any consume and L-1, ..., 0 after the successes, and a successful
\* consume returns the new remaining.
C9_LimiterQuota ==
    /\ \A u \in NormEmails :
          /\ hist[u].mode = "none" =>
                \A L \in Limits : remaining_searches(usage, u, L, today) = L
          /\ hist[u].mode = "unit" =>
                /\ count_for(usage, u, today) = Min(hist[u].n, hist[u].limit)
                /\ remaining_searches(usage, u, hist[u].limit, today)
                       = hist[u].limit - Min(hist[u].n, hist[u].limit)
    /\ (lret.op = "consume" /\ hist[lret.user].mode = "unit") =>
          /\ lret.ok <=> hist[lret.user].n <= lret.limit
          /\ lret.ok => lret.rem = lret.limit - hist[lret.user].n
    /\ (lret.op = "remaining" /\ hist[lret.user].mode = "unit"
            /\ hist[lret.user].limit = lret.limit) =>
          lret.rem = lret.limit - Min(hist[lret.user].n, lret.limit)

\* C9 witness: the page's search after DAILY_LIMIT counted ones has been refused
C9_Witness ==
    /\ lret.op = "consume"
    /\ lret.page
    /\ ~lret.ok
    /\ hist[lret.user].mode = "unit"
    /\ hist[lret.user].n = DAILY_LIMIT + 1
    /\ count_for(usage, lret.user, today) = DAILY_LIMIT

\* the count a consume step finds, and whether the call it makes fits
Fits == count_for(usage, lret'.user, today) + lret'.cost <= lret'.limit

\* C10: a consume with count_for_today + cost > daily_limit fails and leaves
\* every counter as it was, so that a later consume of a smaller cost that fits
\* succeeds; under a fixed limit, count_for_today never exceeds the limit.
C10_FailedConsumeNoEffect ==
    /\ [](\A u \in NormEmails :
             hist[u].mode \in {"unit", "fixed"} =>
                 count_for(usage, u, today) <= hist[u].limit)
    /\ [][lret'.op = "consume" =>
             IF Fits
             THEN /\ lret'.ok
                  /\ usage' = [usage EXCEPT ![<<lret'.user, today>>] = @ + lret'.cost]
             ELSE /\ ~lret'.ok
                  /\ usage' = usage]_vars

\* C10 witness: after a refused consume, one of a smaller cost has succeeded
C10_Witness ==
    /\ lret.op = "consume"
    /\ lret.ok
    /\ lret.retry
    /\ \E u \in NormEmails : u # lret.user /\ count_for(usage, u, today) > 0

\* C11: what a user consumed on a day does not count on the next one: before
\* the first consume of a day remaining(u, L) is L, the first consume of a day
\* succeeds even after a day that used up the quota, remaining never exceeds L,
\* and the counters of the days to come are untouched.
C11_DayRollover ==
    /\ \A u \in NormEmails :
          /\ hist[u].mode = "none" =>
                /\ count_for(usage, u, today) = 0
                /\ \A L \in Limits : remaining_searches(usage, u, L, today) = L
          /\ \A L \in Limits : remaining_searches(usage, u, L, today) <= L
          /\ \A d \in Days : d > today => usage[<<u, d>>] = 0
    /\ (lret.op = "remaining" /\ hist[lret.user].mode = "none") =>
          lret.rem = lret.limit
    /\ (lret.op = "consume" /\ hist[lret.user].mode = "unit"
            /\ hist[lret.user].n = 1) =>
          /\ lret.ok
          /\ lret.rem = lret.limit - 1

\* C11 witness: the first search of a day has succeeded for a user who had used
\* up the quota the day before
C11_Witness ==
    /\ today >= 1
    /\ lret.op = "consume"
    /\ lret.ok
    /\ hist[lret.user].n = 1
    /\ usage[<<lret.user, today - 1>>] = DAILY_LIMIT
    /\ lret.rem = DAILY_LIMIT - 1

\* C12: remaining(user_id, daily_limit) is daily_limit - count_for_today, or 0
\* when the count has reached or passed daily_limit; it is never negative and
\* the call changes no counter.
C12_RemainingFloored ==
    /\ [](lret.op = "remaining" =>
             /\ lret.rem >= 0
             /\ lret.rem = IF count_for(usage, lret.user, today) >= lret.limit
                           THEN 0
                           ELSE lret.limit - count_for(usage, lret.user, today))
    /\ [][lret'.op = "remaining" => usage' = usage]_vars

\* C12 witness: remaining has been asked with a limit below the count of today
C12_Witness ==
    /\ lret.op = "remaining"
    /\ lret.limit < count_for(usage, lret.user, today)
    /\ lret.rem = 0

-----------------------------------------------------------------------------
(* Further claims about the credential store *)

\* the file is a JSON object whose keys are normalized e-mails, each once
OneRecordPerEmail(f) ==
    /\ f.exists
    /\ f.text.kind = "object"
    /\ \A i, j \in 1..Len(f.text.entries) :
          /\ f.text.entries[i][1] = Canon(f.text.entries[i][1])
          /\ i # j => f.text.entries[i][1] # f.text.entries[j][1]

\* C13: e-mails that differ only in letter case or surrounding whitespace name
\* the same user to upsert_user and get_user_by_email; once upsert_user has
\* stored a record the file holds one record per normalized e-mail, and an
\* upsert of a stored e-mail replaces its record without raising.
C13_EmailNormalizedKey ==
    /\ \A e1, e2 \in RawEmails : Canon(e1) = Canon(e2) =>
          get_user_by_email(World, e1).rec = get_user_by_email(World, e2).rec
    /\ (\E e \in NormEmails : lastPw[e] # "") => OneRecordPerEmail(files[USERS_PATH])
    /\ (ret.op = "upsert_user" /\ ~ret.raised) =>
          \A e \in RawEmails : Canon(e) = Canon(ret.email) =>
              get_user_by_email(World, e).rec = ret.rec
    /\ (ret.op = "upsert_user" /\ ret.old # "") =>
          /\ ~ret.raised
          /\ verify_password(ret.password, ret.rec, "s1").val

\* C13 witness: a stored e-mail has been upserted again under another spelling
C13_Witness ==
    /\ ret.op = "upsert_user"
    /\ ~ret.raised
    /\ ret.old # ""
    /\ ret.email # Canon(ret.email)
    /\ Len(files[USERS_PATH].text.entries) = 2

\* the document load_users reads is missing, unreadable, not JSON or not a
\* JSON object
NoDocument(f) == ~f.exists \/ f.text.kind \notin {"blank", "object"}

\* the document holds a record for the e-mail: an entry whose value is an object
Stored(f, email) ==
    /\ ~NoDocument(f)
    /\ \E i \in 1..Len(f.text.entries) :
          /\ Canon(f.text.entries[i][1]) = Canon(email)
          /\ f.text.entries[i][2].dict

\* C14: get_user_by_email and has_any_user never raise; get_user_by_email
\* returns None for an e-mail that has no record, entries whose value is not an
\* object counting as none; on a document that is missing, unreadable, not JSON
\* or not an object get_user_by_email returns None and has_any_user false.
C14_ReadsNeverRaise ==
    /\ ret.op \in {"get_user_by_email", "has_any_user"} => ~ret.raised
    /\ \A e \in RawEmails :
          LET r == get_user_by_email(World, e)
              f == r.w.files[r.w.path]
          IN  /\ ~r.raised
              /\ ~Stored(f, e) => r.rec = None
              /\ Stored(f, e) => r.rec.dict
    /\ LET h == has_any_user(World)
       IN  /\ ~h.raised
           /\ NoDocument(h.w.files[h.w.path]) => ~h.val
    /\ (ret.op = "get_user_by_email" /\ ~Stored(files[USERS_PATH], ret.email)) =>
          ret.rec = None

\* C14 witness: get_user_by_email has returned None on a file that is not JSON
C14_Witness ==
    /\ ret.op = "get_user_by_email"
    /\ files[USERS_PATH].exists
    /\ files[USERS_PATH].text.kind = "garbage"
    /\ ~ret.raised
    /\ ret.rec = None

\* C15: no credential-store operation raises on a storage failure: when the
\* users file cannot be written upsert_user returns without an exception, as
\* the read operations do.
C15_NoAbortOnStorageFailure ==
    ret.op \in {"upsert_user", "get_user_by_email", "has_any_user"} => ~ret.raised

\* C15 witness: upsert_user has raised where the users file cannot be written,
\* and the file is as it was
C15_Witness ==
    /\ ret.op = "upsert_user"
    /\ ret.raised
    /\ ~writable[USERS_PATH]
    /\ ret.rec = None

-----------------------------------------------------------------------------
(* yf_client.yf_call(fn, max_attempts), statement by statement.  An attempt  *)
(* of fn returns a value or raises an Exception; log keeps the outcomes.     *)

AttemptCounts == 0..MaxAttempts

\* what fn() returns
FnResults == {"r1", "r2"}

\* str(e) of what fn() raises
FnErrors == {"e1", "e2"}

FnOutcomes == { [ok |-> TRUE, v |-> r] : r \in FnResults }
              \cup { [ok |-> FALSE, v |-> e] : e \in FnErrors }

RECURSIVE Pow2(_)
Pow2(n) == IF n <= 0 THEN 1 ELSE 2 * Pow2(n - 1)

\* for attempt in range(1, max_attempts + 1): the next attempt, or the end of
\* the loop
yf_for(y) ==
    IF y.attempt + 1 <= y.max_attempts
    THEN [y EXCEPT !.attempt = @ + 1, !.pc = "try"]
    ELSE [y EXCEPT !.pc = "raise"]

\* a mutant of the try block: fn() is called and its result dropped
yf_try_no_return(y, o) ==
    IF o.ok
    THEN [y EXCEPT !.log = Append(@, o), !.pc = "for"]
    ELSE [y EXCEPT !.log = Append(@, o), !.last = o.v,
                   !.pc = IF y.attempt = y.max_attempts THEN "raise" ELSE "sleep"]

\* try: return fn() / except Exception as e: last = e; break on the last
\* attempt, else go to sleep
yf_try(y, o) ==
    IF o.ok
    THEN [y EXCEPT !.log = Append(@, o), !.result = o.v, !.pc = "returned"]
    ELSE [y EXCEPT !.log = Append(@, o), !.last = o.v,
                   !.pc = IF y.attempt = y.max_attempts THEN "raise" ELSE "sleep"]

\* time.sleep(2 ** (attempt - 1) + random.uniform(0, 0.5)), in whole seconds
yf_sleep(y) == [y EXCEPT !.slept = @ + Pow2(y.attempt - 1), !.pc = "for"]

\* raise YFError(str(last) if last else "yfinance error")
yf_raise(y) ==
    [y EXCEPT !.error = "YFError(" \o (IF y.last # "None" THEN y.last
                                       ELSE "yfinance error") \o ")",
              !.pc = "raised"]

YfFor ==
    /\ yf.pc = "for"
    /\ yf' = yf_for(yf)
    /\ UNCHANGED <<credVars, now, verVars, cacheVars, limVars, sessVars>>

YfTry(o) ==
    /\ yf.pc = "try"
    /\ yf' = yf_try(yf, o)
    /\ UNCHANGED <<credVars, now, verVars, cacheVars, limVars, sessVars>>

YfSleep ==
    /\ yf.pc = "sleep"
    /\ yf' = yf_sleep(yf)
    /\ UNCHANGED <<credVars, now, verVars, cacheVars, limVars, sessVars>>

YfRaise ==
    /\ yf.pc = "raise"
    /\ yf' = yf_raise(yf)
    /\ UNCHANGED <<credVars, now, verVars, cacheVars, limVars, sessVars>>

NextYf ==
    \/ YfFor
    \/ \E o \in FnOutcomes : YfTry(o)
    \/ YfSleep
    \/ YfRaise

\* yf_call(fn, max_attempts) has been called and stands before its loop
InitYf ==
    /\ IdleCred
    /\ now = 0
    /\ vcall = NoVerifyCall
    /\ IdleCache
    /\ IdleLimiter
    /\ IdleSession
    /\ \E m \in AttemptCounts : yf = [NoYfCall EXCEPT !.pc = "for", !.max_attempts = m]

\* the interpreter runs the next statement, fn() and sleep() come back
SpecYf == InitYf /\ [][NextYf]_vars /\ WF_vars(NextYf)

-----------------------------------------------------------------------------
(* Claims about yf_call *)

YfDone == yf.pc \in {"returned", "raised"}

\* what yf_call has done so far is a run of failed attempts, ended or not by
\* the one success it returns
YfFirstSuccessReturned ==
    /\ \A i \in 1..(Len(yf.log) - 1) : ~yf.log[i].ok
    /\ yf.pc = "returned" =>
          /\ Len(yf.log) >= 1
          /\ yf.log[Len(yf.log)].ok
          /\ yf.result = yf.log[Len(yf.log)].v
    /\ yf.pc = "raised" =>
          /\ Len(yf.log) = yf.max_attempts
          /\ \A i \in 1..Len(yf.log) : ~yf.log[i].ok
          /\ yf.error = "YFError(" \o (IF yf.log = <<>> THEN "yfinance error"
                                       ELSE yf.log[Len(yf.log)].v) \o ")"

-----------------------------------------------------------------------------
(* auth.py: the session and the login gate.  A run of require_login gets the *)
(* fields of the form it shows: [email, pwd, pwd2, ok], ok saying whether    *)
(* the form was submitted.                                                   *)

\* db.init_db: the users file is ensured and the cache database created
init_db(w, db) == [w |-> ensure_users_file(w), db |-> get_conn(db)]

\* auth.is_logged_in
is_logged_in(ss) == ss.auth_ok /\ ss.auth_email # <<>>

\* auth.is_admin
is_admin(ss) == (ss.auth_role = "admin") \/ ss.is_admin

\* what the user can type as e-mail and as password
FormEmails == { <<" ", "A", "@", "X", " ">>, <<"b", "@", "x">>, <<"a", "x">>, <<>> }

FormPasswords == Passwords \cup {"", "secret1"}

\* the form as a run gets it: not submitted, or submitted with an e-mail, a
\* password and the password repeated or left out
Forms ==
    {NoForm} \cup
    UNION { { [email |-> e, pwd |-> p, pwd2 |-> q, ok |-> TRUE] : q \in {p, ""} } :
                e \in FormEmails, p \in FormPasswords }

\* "@" in email
HasAt(email) == \E i \in 1..Len(email) : email[i] = "@"

\* st.text_input(...).strip().lower()
text_input(typed) == str_lower(str_strip(typed))

\* a mutant of _setup_screen: the first user is created with role "user"
setup_screen_plain_user(w, form, rnd, t) ==
    LET email == text_input(form.email)
    IN  IF ~form.ok
        THEN [w |-> w, outcome |-> "form", raised |-> FALSE, events |-> <<>>]
        ELSE IF email = <<>> \/ ~HasAt(email)
        THEN [w |-> w, outcome |-> "invalid_email", raised |-> FALSE, events |-> <<>>]
        ELSE IF form.pwd = "" \/ form.pwd # form.pwd2 \/ Len(form.pwd) < 6
        THEN [w |-> w, outcome |-> "invalid_password", raised |-> FALSE, events |-> <<>>]
        ELSE Let(upsert_user(w, email, form.pwd, "user", rnd, t), LAMBDA r :
                 [w |-> r.w, outcome |-> IF r.raised THEN "crash" ELSE "created",
                  raised |-> r.raised, events |-> <<"upsert_user">>])

\* auth._setup_screen: [w, outcome, raised, events]
_setup_screen(w, form, rnd, t) ==
    LET email == text_input(form.email)
    IN  IF ~form.ok
        THEN [w |-> w, outcome |-> "form", raised |-> FALSE, events |-> <<>>]
        ELSE IF email = <<>> \/ ~HasAt(email)
        THEN [w |-> w, outcome |-> "invalid_email", raised |-> FALSE, events |-> <<>>]
        ELSE IF form.pwd = "" \/ form.pwd # form.pwd2 \/ Len(form.pwd) < 6
        THEN [w |-> w, outcome |-> "invalid_password", raised |-> FALSE, events |-> <<>>]
        ELSE Let(upsert_user(w, email, form.pwd, "admin", rnd, t), LAMBDA r :
                 [w |-> r.w, outcome |-> IF r.raised THEN "crash" ELSE "created",
                  raised |-> r.raised, events |-> <<"upsert_user">>])

\* a mutant of the login form: a record for the e-mail is enough, the password
\* is not verified
login_form_no_verify(w, ss, form, rnd) ==
    IF ~form.ok
    THEN [w |-> w, session |-> ss, outcome |-> "form"]
    ELSE Let(get_user_by_email(w, text_input(form.email)), LAMBDA g :
             IF ~g.rec.dict \/ g.rec.f = NoMembers
             THEN [w |-> g.w, session |-> ss, outcome |-> "rejected"]
             ELSE [w |-> g.w, outcome |-> "logged_in",
                   session |-> [auth_ok |-> TRUE, auth_email |-> text_input(form.email),
                                auth_role |-> Get(g.rec.f, "role", "user"),
                                is_admin |-> (Get(g.rec.f, "role", "None") = "admin")]])

\* the login form of require_login: [w, session, outcome]
login_form(w, ss, form, rnd) ==
    IF ~form.ok
    THEN [w |-> w, session |-> ss, outcome |-> "form"]
    ELSE Let(get_user_by_email(w, text_input(form.email)), LAMBDA g :
             IF ~g.rec.dict \/ g.rec.f = NoMembers
                \/ ~verify_password(form.pwd, g.rec, rnd).val
             THEN [w |-> g.w, session |-> ss, outcome |-> "rejected"]
             ELSE [w |-> g.w, outcome |-> "logged_in",
                   session |-> [auth_ok |-> TRUE, auth_email |-> text_input(form.email),
                                auth_role |-> Get(g.rec.f, "role", "user"),
                                is_admin |-> (Get(g.rec.f, "role", "None") = "admin")]])

\* a mutant of require_login: the login form is shown whatever has_any_user says
require_login_no_bootstrap(w, ss, form, rnd, t) ==
    Let(ensure_users_file(w), LAMBDA w1 :
        IF is_logged_in(ss)
        THEN [w |-> w1, session |-> ss, shown |-> "none", ret |-> TRUE,
              outcome |-> "pass", raised |-> FALSE, events |-> <<>>]
        ELSE Let(login_form(w1, ss, form, rnd), LAMBDA l :
                 [w |-> l.w, session |-> l.session, shown |-> "login", ret |-> FALSE,
                  outcome |-> l.outcome, raised |-> FALSE, events |-> <<>>]))

\* auth.require_login: [w, session, shown, ret, outcome, raised, events]; ret is
\* what it returns, FALSE also where st.rerun() or an exception ends the run
require_login(w, ss, form, rnd, t) ==
    Let(ensure_users_file(w), LAMBDA w1 :
        IF is_logged_in(ss)
        THEN [w |-> w1, session |-> ss, shown |-> "none", ret |-> TRUE,
              outcome |-> "pass", raised |-> FALSE, events |-> <<>>]
        ELSE Let(has_any_user(w1), LAMBDA h :
             IF ~h.val
             THEN Let(_setup_screen(h.w, form, rnd, t), LAMBDA s :
                      [w |-> s.w, session |-> ss, shown |-> "setup", ret |-> FALSE,
                       outcome |-> s.outcome, raised |-> s.raised, events |-> s.events])
             ELSE Let(login_form(h.w, ss, form, rnd), LAMBDA l :
                      [w |-> l.w, session |-> l.session, shown |-> "login", ret |-> FALSE,
                       outcome |-> l.outcome, raised |-> FALSE, events |-> <<>>])))

\* a mutant of logout_button: auth_ok and auth_email are popped, auth_role and
\* is_admin are left in the session
logout_button_keep_role(ss, clicked) ==
    IF clicked THEN [ss EXCEPT !.auth_ok = FALSE, !.auth_email = <<>>] ELSE ss

\* auth.logout_button: the session after, the button clicked or not
logout_button(ss, clicked) == IF clicked THEN NoSession ELSE ss

-----------------------------------------------------------------------------
(* pages/analysis.py and pages/admin_users.py, as router.run_app calls them  *)
(* for a session that require_login lets through.                            *)

\* analysis._get_user_email: auth_email if it holds an "@", else "".  The other
\* keys it looks at are set nowhere in the program.
_get_user_email(ss) ==
    IF HasAt(ss.auth_email) THEN str_lower(str_strip(ss.auth_email)) ELSE <<>>

\* the data fetches of page_analysis in their order, with the cache key and
\* the ttl of each for the ticker AAPL
Fetchers ==
    << [fn |-> "get_price_data",    key |-> "yf:quote:AAPL",    ttl |-> 300],
       [fn |-> "get_profile_data",  key |-> "yf:profile:AAPL",  ttl |-> 2592000],
       [fn |-> "get_key_stats",     key |-> "yf:keystats:AAPL", ttl |-> 2592000],
       [fn |-> "get_dividend_kpis", key |-> "yf:divkpis:AAPL",  ttl |-> 86400] >>

FetchNames == { Fetchers[i].fn : i \in 1..Len(Fetchers) }

\* what the loaders of a run return
LoaderValues == {"'v1'"}

\* what os.urandom(16) returns in the runs of a session
SessionSalts == {"s2"}

\* the database after fetchers i.. have run, each through _cache_get_or_set
RECURSIVE fetch_from(_, _, _, _)
fetch_from(db, i, fnval, t) ==
    IF i > Len(Fetchers) THEN db
    ELSE Let(_cache_get_or_set(db, Fetchers[i].key,
                               [has |-> TRUE, n |-> Fetchers[i].ttl], fnval, t),
             LAMBDA r : fetch_from(r.db, i + 1, fnval, t))

\* pages.analysis.page_analysis for the session ss: clear tells whether the
\* "Limpiar cache" button is clicked, search whether a ticker was entered, and
\* fnval what the loaders return.  [db, usage, outcome, events], events being
\* the limiter, cache and fetch calls of the run in order.
page_analysis(ss, db, u, clear, search, fnval, d, t) ==
    LET user_email == _get_user_email(ss)
        admin      == is_admin(ss)
        shown      == IF (~admin) /\ user_email # <<>>
                      THEN <<"remaining_searches">> ELSE <<>>
        names      == [i \in 1..Len(Fetchers) |-> Fetchers[i].fn]
    IN  IF admin /\ clear
        THEN [db |-> clear_cache_click(db, admin), usage |-> u, outcome |-> "cleared",
              events |-> <<"cache_clear_all">>]
        ELSE IF ~search
        THEN [db |-> db, usage |-> u, outcome |-> "idle", events |-> shown]
        ELSE Let(page_search(u, admin, user_email, d), LAMBDA r :
                 IF r.consumed /\ ~r.ok
                 THEN [db |-> db, usage |-> r.usage, outcome |-> "limit",
                       events |-> shown \o <<"consume_search_refused">>]
                 ELSE [db |-> fetch_from(db, 1, fnval, t), usage |-> r.usage,
                       outcome |-> "fetched",
                       events |-> shown \o
                                  (IF r.consumed THEN <<"consume_search_ok">> ELSE <<>>)
                                  \o names])

\* a mutant of page_admin_users: the page does not ask is_admin()
page_admin_users_no_gate(w, ss, form, role, rnd, t) ==
    LET email == text_input(form.email)
    IN  IF ~form.ok
        THEN Let(load_users(w), LAMBDA l :
                 [w |-> l.w, outcome |-> "list", raised |-> FALSE,
                  events |-> <<"load_users">>])
        ELSE IF email = <<>> \/ ~HasAt(email)
        THEN [w |-> w, outcome |-> "invalid_email", raised |-> FALSE, events |-> <<>>]
        ELSE IF form.pwd = "" \/ Len(form.pwd) < 6
        THEN [w |-> w, outcome |-> "invalid_password", raised |-> FALSE, events |-> <<>>]
        ELSE Let(upsert_user(w, email, form.pwd, role, rnd, t), LAMBDA r :
                 [w |-> r.w, outcome |-> IF r.raised THEN "crash" ELSE "saved",
                  raised |-> r.raised, events |-> <<"upsert_user">>])

\* pages.admin_users.page_admin_users for the session ss, the form holding
\* e-mail and password (pwd2 is not asked) and role the role selected:
\* [w, outcome, raised, events]
page_admin_users(w, ss, form, role, rnd, t) ==
    LET email == text_input(form.email)
    IN  IF ~is_admin(ss)
        THEN [w |-> w, outcome |-> "unauthorized", raised |-> FALSE, events |-> <<>>]
        ELSE IF ~form.ok
        THEN Let(load_users(w), LAMBDA l :
                 [w |-> l.w, outcome |-> "list", raised |-> FALSE,
                  events |-> <<"load_users">>])
        ELSE IF email = <<>> \/ ~HasAt(email)
        THEN [w |-> w, outcome |-> "invalid_email", raised |-> FALSE, events |-> <<>>]
        ELSE IF form.pwd = "" \/ Len(form.pwd) < 6
        THEN [w |-> w, outcome |-> "invalid_password", raised |-> FALSE, events |-> <<>>]
        ELSE Let(upsert_user(w, email, form.pwd, role, rnd, t), LAMBDA r :
                 [w |-> r.w, outcome |-> IF r.raised THEN "crash" ELSE "saved",
                  raised |-> r.raised, events |-> <<"upsert_user">>])

-----------------------------------------------------------------------------
(* The browser session as a state machine: each action is one run of the     *)
(* script, router.run_app calling require_login and then a page.             *)

\* a run that stops in require_login, or passes it
RequireLogin(form, rnd) ==
    \E i \in {init_db(World, kv_cache)} :
    \E r \in {require_login(i.w, session, form, rnd, now)} :
        /\ SetWorld(r.w)
        /\ kv_cache' = i.db
        /\ session' = r.session
        /\ run' = [NoRun EXCEPT !.page = "require_login",
                                !.logged_in = is_logged_in(session),
                                !.admin = is_admin(session),
                                !.empty = ~has_any_user(i.w).val,
                                !.form = form,
                                !.shown = r.shown, !.ret = r.ret,
                                !.outcome = r.outcome, !.raised = r.raised,
                                !.events = r.events]
        /\ UNCHANGED <<ret, lastPw, now, verVars, cret, wrote, limVars, yfVars, proc>>

\* a run of a logged-in session in which the logout button is clicked
Logout ==
    /\ is_logged_in(session)
    /\ \E i \in {init_db(World, kv_cache)} :
          /\ SetWorld(i.w)
          /\ kv_cache' = i.db
    /\ session' = logout_button(session, TRUE)
    /\ run' = [NoRun EXCEPT !.page = "logout", !.logged_in = TRUE,
                            !.admin = is_admin(session), !.ret = TRUE]
    /\ UNCHANGED <<ret, lastPw, now, verVars, cret, wrote, limVars, yfVars, proc>>

\* a run of a logged-in session on the section "Analisis": the button
\* "Limpiar cache" is clicked or not, a ticker is entered or not, and the
\* loaders, where called, return fnval
PageAnalysis(clear, search, fnval) ==
    /\ is_logged_in(session)
    /\ \E i \in {init_db(World, kv_cache)} :
       \E r \in {page_analysis(session, i.db, usage, clear, search, fnval, today, now)} :
          /\ SetWorld(i.w)
          /\ kv_cache' = r.db
          /\ usage' = r.usage
          /\ run' = [NoRun EXCEPT !.page = "analysis", !.logged_in = TRUE,
                                  !.admin = is_admin(session),
                                  !.user = _get_user_email(session),
                                  !.ret = TRUE, !.outcome = r.outcome,
                                  !.events = r.events]
    /\ UNCHANGED <<session, ret, lastPw, now, verVars, cret, wrote, today, lret, hist,
                   yfVars, proc>>

\* a run of a logged-in session that gets to page_admin_users.  The router
\* offers the section to admins only; the page is run for every session, so
\* that its own gate is what decides.
PageAdminUsers(form, role, rnd) ==
    /\ is_logged_in(session)
    /\ \E i \in {init_db(World, kv_cache)} :
       \E r \in {page_admin_users(i.w, session, form, role, rnd, now)} :
          /\ SetWorld(r.w)
          /\ kv_cache' = i.db
          /\ run' = [NoRun EXCEPT !.page = "admin_users", !.logged_in = TRUE,
                                  !.admin = is_admin(session),
                                  !.ret = TRUE, !.outcome = r.outcome,
                                  !.raised = r.raised, !.events = r.events]
    /\ UNCHANGED <<session, ret, lastPw, now, verVars, cret, wrote, limVars, yfVars, proc>>

\* the forms of page_admin_users, which asks the password once
AdminForms == { f \in Forms : f.pwd2 = "" }

NextSession ==
    \/ \E form \in Forms, rnd \in SessionSalts : RequireLogin(form, rnd)
    \/ Logout
    \/ \E clear \in BOOLEAN, search \in BOOLEAN, fnval \in LoaderValues :
          PageAnalysis(clear, search, fnval)
    \/ \E form \in AdminForms, role \in Roles, rnd \in SessionSalts :
          PageAdminUsers(form, role, rnd)

InitSession ==
    /\ InitCred
    /\ now = 0
    /\ vcall = NoVerifyCall
    /\ IdleCache
    /\ IdleLimiter
    /\ IdleYf
    /\ IdleSession

SpecSession == InitSession /\ [][NextSession]_vars

\* a submission the admin-creation form accepts: an e-mail with an "@", and a
\* password of six characters or more typed twice
ValidSetup(form) ==
    /\ form.ok
    /\ HasAt(text_input(form.email))
    /\ Len(form.pwd) >= 6
    /\ form.pwd = form.pwd2

Fetched(events) == \E i \in 1..Len(events) : events[i] \in FetchNames

\* every data fetch among the calls comes after a consume that succeeded
ConsumedBefore(events) ==
    \A i \in 1..Len(events) :
        events[i] \in FetchNames =>
            \E j \in 1..(i - 1) : events[j] = "consume_search_ok"

Calls(events, name) == \E i \in 1..Len(events) : events[i] = name

\* C19: page_admin_users calls upsert_user only in a run whose session has
\* is_admin() true, and page_analysis calls cache_clear_all only in such a run.
\* For a session that is not admin page_admin_users shows "No autorizado" and
\* calls nothing, and a run of either page leaves the users file as it was
\* and removes no row of the cache: page_admin_users leaves the rows as they
\* were, page_analysis only adds the rows of its fetches.
C19_AdminGating ==
    /\ [](run.page = "admin_users" /\ Calls(run.events, "upsert_user") => run.admin)
    /\ [](run.page = "analysis" /\ Calls(run.events, "cache_clear_all") => run.admin)
    /\ [](run.page = "admin_users" /\ ~run.admin =>
              run.outcome = "unauthorized" /\ run.events = <<>>)
    /\ [][(run'.page \in {"admin_users", "analysis"} /\ ~is_admin(session)) =>
              /\ files' = files
              /\ USERS_PATH' = USERS_PATH
              /\ kv_cache.rows \subseteq kv_cache'.rows
              /\ run'.outcome \in {"unauthorized", "idle", "limit"} =>
                    kv_cache'.rows = kv_cache.rows]_vars
    /\ [][(run'.page = "admin_users" /\ run'.outcome # "saved") =>
              files' = files]_vars

\* C19 witness: with rows in the cache, page_admin_users ran for a session that
\* is not admin and refused
C19_Witness ==
    /\ run.page = "admin_users"
    /\ ~run.admin
    /\ ~is_admin(session)
    /\ run.outcome = "unauthorized"
    /\ kv_cache.rows # {}

\* the rows of the key in the table
RowsOf(db, key) == { r \in db.rows : r.key = key }

\* the last write of key k has not expired at time t
Unexpired(k, t) == ~(wrote[k].ttl.has /\ t >= wrote[k].at + wrote[k].ttl.n)

-----------------------------------------------------------------------------
(* Claims about the life of the records *)

\* the world after the step
WorldNext == [files |-> files', path |-> USERS_PATH', writable |-> writable']

\* the e-mails a record can be stored under in the runs of a session
KnownEmails == NormEmails \cup { text_input(e) : e \in FormEmails }

\* the e-mails get_user_by_email returns a record for
StoredEmails(w) == { e \in KnownEmails : get_user_by_email(w, e).rec.dict }

\* the e-mails whose record differs between two worlds
ChangedEmails(w1, w2) ==
    { e \in KnownEmails : get_user_by_email(w1, e).rec # get_user_by_email(w2, e).rec }

\* C21: an e-mail get_user_by_email returns a record for keeps having a record
\* after every call of upsert_user, get_user_by_email and has_any_user, which
\* are the calls by which the bootstrap form, the admin's save and the login
\* reach the store: no step takes an e-mail out of the store.  upsert_user(e)
\* leaves the record of every other e-mail as it was, and a call that raises,
\* or any other call, leaves all records as they were.
C21_NoDeletePath ==
    /\ [][StoredEmails(World) \subseteq StoredEmails(WorldNext)]_vars
    /\ [][ret'.op = "upsert_user" =>
              ChangedEmails(World, WorldNext) \subseteq {Canon(ret'.email)}]_vars
    /\ [][(ret'.op # "upsert_user" \/ ret'.raised) =>
              ChangedEmails(World, WorldNext) = {}]_vars

\* C21 witness: upsert_user has stored an e-mail next to another that had a
\* record, and has one still
C21_Witness ==
    /\ ret.op = "upsert_user"
    /\ ~ret.raised
    /\ StoredEmails(World) \ {Canon(ret.email)} # {}

\* the object-valued entries of the document at a location
RecordsAt(f) ==
    IF f.exists /\ f.text.kind = "object"
    THEN { f.text.entries[i][2] : i \in 1..Len(f.text.entries) } \ {None}
    ELSE {}

\* a record with a role of the two, and algo, iterations, salt and hash present
WellFormed(rec) ==
    /\ rec.dict
    /\ {"role", "algo", "iterations", "salt_b64", "hash_b64"} \subseteq DOMAIN rec.f
    /\ rec.f["role"] \in Roles
    /\ rec.f["algo"] = "pbkdf2_sha256"
    /\ int(rec.f["iterations"]).val >= 1
    /\ ~b64decode(rec.f["salt_b64"]).raised
    /\ rec.f["hash_b64"] # ""

\* C22: over the runs of a session, starting from the documents the program
\* and its seeding script write (and from missing or damaged documents), every
\* record in the users files and every record get_user_by_email returns has a
\* role that is admin or user and has algo, iterations, salt and hash, all
\* four, with values verify_password can read.
C22_RecordsWellFormed ==
    /\ \A loc \in Locations : \A rec \in RecordsAt(files[loc]) : WellFormed(rec)
    /\ \A e \in KnownEmails :
          LET rec == get_user_by_email(World, e).rec
          IN  rec # None => WellFormed(rec)

\* C22 witness: the bootstrap form and then the admin's form have each written
\* a record, one of role admin and one of role user
C22_Witness ==
    /\ run.page = "admin_users"
    /\ run.outcome = "saved"
    /\ \E r1, r2 \in RecordsAt(files[USERS_PATH]) :
          /\ r1.f["role"] = "admin" /\ r1.f["salt_b64"] = b64encode("s2")
          /\ r2.f["role"] = "user" /\ r2.f["salt_b64"] = b64encode("s2")

-----------------------------------------------------------------------------
(* Two threads of the process, each in one call of upsert_user, interleaved  *)
(* at the statements that read and write the users file.                     *)

\* upsert_user, line 105: users = load_users()
upsert_load(w) == load_users(w)

\* upsert_user, lines 106-109: the record is put into the dict loaded and the
\* dict is saved: [w, raised, rec]
upsert_save(w, users, email, password, role, rnd, t) ==
    LET email_n == _norm_email(email)
        h       == hash_password(password, "", DefaultIterations, rnd)
        users2  == DictSet(users, email_n, UserRecord(role, t, h.meta))
    IN  Let(save_users(w, users2), LAMBDA s :
            [w |-> s.w, raised |-> s.raised,
             rec |-> IF s.raised THEN None ELSE DictGet(users2, email_n)])

\* thread i enters upsert_user(email, password, role), the e-mail being another
\* than the one of the other thread
UpsertCall(i, email, password, role) ==
    /\ proc[i].pc = "idle"
    /\ \A j \in Threads \ {i} : proc[j].pc = "idle" \/ Canon(proc[j].email) # Canon(email)
    /\ proc' = [proc EXCEPT ![i] = [NoUpsert EXCEPT !.pc = "load", !.email = email,
                                                    !.password = password, !.role = role]]
    /\ UNCHANGED <<credVars, now, verVars, cacheVars, limVars, yfVars, session, run>>

\* thread i runs load_users()
UpsertLoad(i) ==
    /\ proc[i].pc = "load"
    /\ \E l \in {upsert_load(World)} :
          /\ SetWorld(l.w)
          /\ proc' = [proc EXCEPT ![i].pc = "save", ![i].users = l.users]
    /\ UNCHANGED <<ret, lastPw, now, verVars, cacheVars, limVars, yfVars, session, run>>

\* thread i builds its record, runs save_users(users) and returns
UpsertSave(i, rnd) ==
    /\ proc[i].pc = "save"
    /\ \E r \in {upsert_save(World, proc[i].users, proc[i].email, proc[i].password,
                              proc[i].role, rnd, now)} :
          /\ SetWorld(r.w)
          /\ proc' = [proc EXCEPT ![i].pc = IF r.raised THEN "raised" ELSE "done",
                                  ![i].rec = r.rec]
    /\ UNCHANGED <<ret, lastPw, now, verVars, cacheVars, limVars, yfVars, session, run>>

NextRace ==
    \/ \E i \in Threads, email \in RawEmails, password \in Passwords, role \in Roles :
          UpsertCall(i, email, password, role)
    \/ \E i \in Threads : UpsertLoad(i)
    \/ \E i \in Threads, rnd \in SaltBytes : UpsertSave(i, rnd)

InitRace ==
    /\ InitCred
    /\ now = 0
    /\ vcall = NoVerifyCall
    /\ IdleCache
    /\ IdleLimiter
    /\ IdleYf
    /\ IdleSession

SpecRace == InitRace /\ [][NextRace]_vars

\* C23: when the calls of both threads have returned, the store holds for the
\* e-mail of each the record that its call wrote.
C23_NoLostUpdate ==
    (\A i \in Threads : proc[i].pc = "done") =>
        \A i \in Threads : get_user_by_email(World, proc[i].email).rec = proc[i].rec

\* C23 witness: both calls have returned their record and the store has no
\* record for the e-mail of one of them
C23_Witness ==
    /\ \A i \in Threads : proc[i].pc = "done" /\ proc[i].rec.dict
    /\ \E i \in Threads : ~get_user_by_email(World, proc[i].email).rec.dict

-----------------------------------------------------------------------------
(* Claims about the login gate *)

\* the document as persisted holds a user record, whether or not read_text and
\* json.loads get at it
PersistedRecord(f) ==
    /\ f.exists
    /\ \E i \in 1..Len(f.text.entries) : f.text.entries[i][2].dict

\* C24: a run of require_login shows the admin-creation form only if the
\* users file holds no user record.  (A run that created the admin has
\* written one, so the file is looked at after the runs that wrote nothing.)
C24_SetupOnlyWhenNoUser ==
    (run.page = "require_login" /\ run.shown = "setup" /\ run.outcome # "created") =>
        ~PersistedRecord(files[USERS_PATH])

\* C24 witness: the admin-creation form is shown, not yet submitted, over a
\* users file that holds an admin's record and that read_text cannot decode
C24_Witness ==
    /\ run.page = "require_login"
    /\ run.shown = "setup"
    /\ run.outcome = "form"
    /\ PersistedRecord(files[USERS_PATH])
    /\ files[USERS_PATH].text.kind = "unreadable"

\* the run that ends in the primed state is a login that succeeded: the login
\* form was submitted, and the record stored for the e-mail typed verifies the
\* password typed
VerifiedLogin ==
    /\ run'.page = "require_login"
    /\ run'.shown = "login"
    /\ run'.outcome = "logged_in"
    /\ run'.form.ok
    /\ session'.auth_email = text_input(run'.form.email)
    /\ \E g \in {get_user_by_email(World, text_input(run'.form.email))} :
          /\ g.rec.dict
          /\ \E rnd \in SessionSalts : verify_password(run'.form.pwd, g.rec, rnd).val

\* C25: a session that is not logged in becomes logged in only by a run of
\* require_login whose submitted e-mail and password verify against the stored
\* record; a run of the login form that rejects the submission leaves the
\* session as it was; and require_login returns True only to a session that
\* is logged in.
C25_VerifiedLoginOnly ==
    /\ [][(~is_logged_in(session) /\ is_logged_in(session')) => VerifiedLogin]_vars
    /\ [][(run'.page = "require_login" /\ run'.outcome # "logged_in") =>
              session' = session]_vars
    /\ []((run.page = "require_login" /\ run.ret) =>
              (run.logged_in /\ is_logged_in(session)))

\* C25 witness: a session was logged in by the login form, with the password
\* "secret1" that only a record written during the session can hold
C25_Witness ==
    /\ run.page = "require_login"
    /\ run.outcome = "logged_in"
    /\ run.form.pwd = "secret1"
    /\ is_logged_in(session)

\* C26: the run that logs a session in leaves is_admin() true exactly if the
\* role of the stored record is "admin"; the is_admin flag of the session
\* equals (auth_role = "admin") in every state; a logout leaves neither
\* is_logged_in() nor is_admin() true, and a session in which both are false
\* gets either of them true only by a run that logs it in.
C26_RoleAndLogout ==
    /\ []((run.page = "require_login" /\ run.outcome = "logged_in") =>
              (is_admin(session) <=>
                  Get(get_user_by_email(World, session.auth_email).rec.f, "role", "") = "admin"))
    /\ [](session.is_admin = (session.auth_role = "admin"))
    /\ []((run.page = "logout") => (~is_logged_in(session) /\ ~is_admin(session)))
    /\ [](~is_logged_in(session) => ~is_admin(session))
    /\ [][(~is_logged_in(session) /\ (is_logged_in(session') \/ is_admin(session'))) =>
              (run'.page = "require_login" /\ run'.outcome = "logged_in")]_vars

\* C26 witness: an admin has logged out, and the session is neither logged in
\* nor admin
C26_Witness ==
    /\ run.page = "logout"
    /\ run.admin
    /\ ~is_logged_in(session)
    /\ ~is_admin(session)

====
